---- MODULE Spec2Model ----
(***************************************************************************)
(* Shape/rank bookkeeping of src/math/shapes.ts (inferShape, shapeLength,  *)
(* toShape and its wrappers, iterate1D..iterate4D) and the reactive value  *)
(* cell createSignal.                                                      *)
(*                                                                         *)
(* JavaScript arrays are objects: a variable holds a reference.  The heap  *)
(* is a sequence of array contents and a reference is an index into it.    *)
(* Array contents are TLA+ sequences; the code's 0-based index j is the    *)
(* sequence index j + 1 (operators At and Put).                            *)
(***************************************************************************)
EXTENDS Integers, Sequences, FiniteSets, TLC

VARIABLES
    heap,        \* shapes.ts: the arrays that exist, by reference
    shape,       \* toShape: the reference passed as `shape`
    rank,        \* toShape: the `rank` argument (0 before the call)
    ret,         \* toShape: the reference returned (0 before the call)
    pc,          \* toShape caller: "call", "returned", "written" ("off": unused)
    itShape,     \* iterateKD: the shape argument (<<n>> for iterate1D(n, ..))
    frames,      \* iterateKD: the loop counter i of each active iterate1D
    calls,       \* iterateKD: the index tuples the callback was invoked with
    itPc,        \* iterateKD: "idle", "run", "done" ("off": unused)
    arr,         \* inferShape: the nested array argument
    inferred,    \* inferShape: the returned shape
    infPc,       \* inferShape caller: "call", "returned" ("off": unused)
    value,       \* createSignal: the closure variable `value`
    subscribers, \* createSignal: the closure array `subscribers`
    notified,    \* createSignal: the subscriber invocations made so far
    ops          \* createSignal caller: the operations performed, with results

vars == <<heap, shape, rank, ret, pc, itShape, frames, calls, itPc,
          arr, inferred, infPc, value, subscribers, notified, ops>>

shapeVars == <<heap, shape, rank, ret, pc>>
iterVars == <<itShape, frames, calls, itPc>>
inferVars == <<arr, inferred, infPc>>
signalVars == <<value, subscribers, notified, ops>>

(***************************************************************************)
(* Bounds of the model.                                                    *)
(***************************************************************************)
\* largest dimension size of a source shape given to toShape
MaxDim == 3
\* largest dimension size of a shape given to iterateKD
MaxIterDim == 2
\* largest length of a sequence inside a nested array given to inferShape
MaxNestLen == 2
\* number of operations performed on one signal
MaxOps == 4

(***************************************************************************)
(* Program constants.                                                      *)
(***************************************************************************)
\* enum Rank: R1 = 1 .. R6 = 6
MinRank == 1
MaxRank == 6

Rank == MinRank..MaxRank

\* all sequences over S of length lo..hi
RECURSIVE SeqsOfLen(_, _)
SeqsOfLen(S, n) ==
    IF n = 0 THEN {<<>>}
    ELSE {Append(s, x) : s \in SeqsOfLen(S, n - 1), x \in S}

SeqsBetween(S, lo, hi) == UNION {SeqsOfLen(S, n) : n \in lo..hi}

\* a[j] and a[j] = v with the code's 0-based index
At(a, j) == a[j + 1]
Put(a, j, v) == [a EXCEPT ![j + 1] = v]

(***************************************************************************)
(* shapeLength                                                             *)
(***************************************************************************)
\* forEach((i) => length *= i), from element k on
RECURSIVE shapeLengthLoop(_, _, _)
shapeLengthLoop(s, k, length) ==
    IF k >= Len(s) THEN length
    ELSE shapeLengthLoop(s, k + 1, length * At(s, k))

shapeLengthStartsAtZero(s) == shapeLengthLoop(s, 0, 0)

shapeLength(s) == shapeLengthLoop(s, 0, 1)

(***************************************************************************)
(* toShape                                                                 *)
(***************************************************************************)
NewArrayFillZero(n, v) == [k \in 1..n |-> 0]

\* new Array(n).fill(v)
NewArrayFill(n, v) == [k \in 1..n |-> v]

RECURSIVE collapseLoopAssigns(_, _, _, _)
collapseLoopAssigns(res, s, r, i) ==
    IF ~(i < Len(s) + 1) THEN res
    ELSE IF i < r
         THEN collapseLoopAssigns(Put(res, r - i, At(s, Len(s) - i)), s, r, i + 1)
         ELSE collapseLoopAssigns(Put(res, 0, At(s, Len(s) - i)), s, r, i + 1)

RECURSIVE collapseLoopTruncates(_, _, _, _)
collapseLoopTruncates(res, s, r, i) ==
    IF ~(i < Len(s) + 1) THEN res
    ELSE IF i <= r
         THEN collapseLoopTruncates(Put(res, i - 1, At(s, i - 1)), s, r, i + 1)
         ELSE collapseLoopTruncates(res, s, r, i + 1)

\* the loop of the branch rank < shape.length, from counter i on
RECURSIVE collapseLoop(_, _, _, _)
collapseLoop(res, s, r, i) ==
    IF ~(i < Len(s) + 1) THEN res
    ELSE IF i < r
         THEN collapseLoop(Put(res, r - i, At(s, Len(s) - i)), s, r, i + 1)
         ELSE collapseLoop(Put(res, 0, At(res, 0) * At(s, Len(s) - i)), s, r, i + 1)

RECURSIVE expandLoopLeftAligned(_, _, _, _)
expandLoopLeftAligned(res, s, r, i) ==
    IF ~(i < Len(s) + 1) THEN res
    ELSE expandLoopLeftAligned(Put(res, i - 1, At(s, i - 1)), s, r, i + 1)

\* the loop of the branch rank > shape.length, from counter i on
RECURSIVE expandLoop(_, _, _, _)
expandLoop(res, s, r, i) ==
    IF ~(i < Len(s) + 1) THEN res
    ELSE expandLoop(Put(res, r - i, At(s, Len(s) - i)), s, r, i + 1)

AllocInPlace(h, contents) == [h EXCEPT ![1] = contents]

\* a new array object: the heap with it, its reference is Len of the new heap
Alloc(h, contents) == Append(h, contents)

\* toShape(shape, rank) on heap h: the heap and the reference returned
toShape(h, sref, r) ==
    LET s == h[sref] IN
    IF r < Len(s)
    THEN LET h2 == Alloc(h, collapseLoop(NewArrayFill(r, 1), s, r, 1))
         IN  [heap |-> h2, ret |-> Len(h2)]
    ELSE IF r > Len(s)
    THEN LET h2 == Alloc(h, expandLoop(NewArrayFill(r, 1), s, r, 1))
         IN  [heap |-> h2, ret |-> Len(h2)]
    ELSE [heap |-> h, ret |-> sref]

\* source shapes: Shape<Rank>, length 1..6, every dimension >= 1
SourceShapes == SeqsBetween(1..MaxDim, MinRank, MaxRank)

\* the values a caller writes into a returned shape
WriteValues == {0}

Call(r) ==
    /\ pc = "call"
    /\ LET out == toShape(heap, shape, r) IN
          /\ heap' = out.heap
          /\ ret' = out.ret
    /\ rank' = r
    /\ pc' = "returned"
    /\ UNCHANGED <<shape, iterVars, inferVars, signalVars>>

ToShape == \E r \in Rank : Call(r)

shapeTo1D == Call(1)

shapeTo2D == Call(2)

shapeTo3D == Call(3)

shapeTo4D == Call(4)

\* the caller assigns one element of the shape it received
WriteReturned ==
    /\ pc = "returned"
    /\ \E j \in 0..(Len(heap[ret]) - 1), v \in WriteValues :
          heap' = [heap EXCEPT ![ret] = Put(heap[ret], j, v)]
    /\ pc' = "written"
    /\ UNCHANGED <<shape, rank, ret, iterVars, inferVars, signalVars>>

NextShape ==
    \/ ToShape
    \/ shapeTo1D
    \/ shapeTo2D
    \/ shapeTo3D
    \/ shapeTo4D
    \/ WriteReturned

(***************************************************************************)
(* iterate1D .. iterate4D                                                  *)
(*                                                                         *)
(* iterateKD nests K calls of iterate1D: the callback of the loop over     *)
(* axis a < K calls iterate1D for axis a + 1, the callback of the loop     *)
(* over axis K is the caller's.  frames[a] is the counter i of the         *)
(* iterate1D that runs over axis a.                                        *)
(***************************************************************************)
IterShapes == SeqsBetween(0..MaxIterDim, 1, 4)

LoopCondInclusive(i, length) == i <= length

\* i < length
LoopCond(i, length) == i < length

\* the outermost iterate1D(shape[0], ..) is entered: let i = 0
Enter(k) ==
    /\ itPc = "idle"
    /\ Len(itShape) = k
    /\ frames' = <<0>>
    /\ itPc' = "run"
    /\ UNCHANGED <<itShape, calls, shapeVars, inferVars, signalVars>>

iterate1D == Enter(1)

iterate2D == Enter(2)

iterate3D == Enter(3)

iterate4D == Enter(4)

\* i < length holds in the innermost active loop: callback(i).  On an outer
\* axis the callback enters iterate1D for the next axis; on the last axis it
\* is the caller's callback, which returns, and then i++.
LoopBody ==
    /\ itPc = "run"
    /\ LET d == Len(frames) IN
          /\ LoopCond(frames[d], itShape[d])
          /\ IF d < Len(itShape)
             THEN /\ frames' = Append(frames, 0)
                  /\ calls' = calls
             ELSE /\ calls' = Append(calls, frames)
                  /\ frames' = [frames EXCEPT ![d] = @ + 1]
    /\ UNCHANGED <<itShape, itPc, shapeVars, inferVars, signalVars>>

\* i < length fails in the innermost active loop: iterate1D returns, which
\* ends the callback of the enclosing loop, and that loop does i++.
LoopExit ==
    /\ itPc = "run"
    /\ LET d == Len(frames) IN
          /\ ~LoopCond(frames[d], itShape[d])
          /\ IF d = 1
             THEN /\ frames' = <<>>
                  /\ itPc' = "done"
             ELSE /\ frames' = [SubSeq(frames, 1, d - 1) EXCEPT ![d - 1] = @ + 1]
                  /\ itPc' = itPc
    /\ UNCHANGED <<itShape, calls, shapeVars, inferVars, signalVars>>

NextIter ==
    \/ iterate1D
    \/ iterate2D
    \/ iterate3D
    \/ iterate4D
    \/ LoopBody
    \/ LoopExit

(***************************************************************************)
(* inferShape                                                              *)
(*                                                                         *)
(* A JavaScript value is a number, an array of values, or undefined.       *)
(***************************************************************************)
Num(n) == [tag |-> "num", val |-> n, items |-> <<>>]
Arr(s) == [tag |-> "arr", val |-> 0, items |-> s]
Undefined == [tag |-> "undefined", val |-> 0, items |-> <<>>]

\* Array.isArray(elem)
IsArray(e) == e.tag = "arr"

IndexLast(e) == IF Len(e.items) = 0 THEN Undefined ELSE e.items[Len(e.items)]

\* elem[0]: undefined when the array is empty
Index0(e) == IF 0 < Len(e.items) THEN At(e.items, 0) ELSE Undefined

\* the while loop of inferShape
RECURSIVE inferShapeLoop(_, _)
inferShapeLoop(acc, elem) ==
    IF IsArray(elem)
    THEN inferShapeLoop(Append(acc, Len(elem.items)), Index0(elem))
    ELSE acc

inferShape(a) == inferShapeLoop(<<>>, a)

\* Nested arrays given to inferShape.  dims are the lengths along the
\* first-element path; the elements after the first are as `sib` says:
\* copies of the first, empty arrays, numbers, or arrays one longer.
Siblings == {"same", "empty", "number", "longer"}

SiblingOf(first, sib) ==
    CASE sib = "same" -> first
      [] sib = "empty" -> Arr(<<>>)
      [] sib = "number" -> Num(2)
      [] sib = "longer" -> Arr(Append(first.items, Num(3)))

RECURSIVE Build(_, _)
Build(dims, sib) ==
    IF dims = <<>> THEN Num(1)
    ELSE LET first == Build(Tail(dims), sib) IN
         Arr([k \in 1..Head(dims) |-> IF k = 1 THEN first ELSE SiblingOf(first, sib)])

NestedArrays ==
    {Build(dims, sib) : dims \in SeqsBetween(0..MaxNestLen, MinRank, MaxRank),
                        sib \in Siblings}

InferShape ==
    /\ infPc = "call"
    /\ inferred' = inferShape(arr)
    /\ infPc' = "returned"
    /\ UNCHANGED <<arr, shapeVars, iterVars, signalVars>>

NextInfer == InferShape

(***************************************************************************)
(* createSignal                                                            *)
(***************************************************************************)
InitialValue == 0
Values == {10, 20}
Callbacks == {1, 2}

RECURSIVE notifyLoopSkipsFirst(_, _, _, _)
notifyLoopSkipsFirst(log, subs, k, v) ==
    IF k >= Len(subs) THEN log
    ELSE notifyLoopSkipsFirst(
             IF k = 0 THEN log ELSE Append(log, [sub |-> At(subs, k), val |-> v]),
             subs, k + 1, v)

\* for (const subscriber of subscribers) subscriber(value), from element k on
RECURSIVE notifyLoop(_, _, _, _)
notifyLoop(log, subs, k, v) ==
    IF k >= Len(subs) THEN log
    ELSE notifyLoop(Append(log, [sub |-> At(subs, k), val |-> v]), subs, k + 1, v)

\* get value()
GetValue ==
    /\ Len(ops) < MaxOps
    /\ ops' = Append(ops, [op |-> "get", arg |-> value])
    /\ UNCHANGED <<value, subscribers, notified, shapeVars, iterVars, inferVars>>

\* set value(v)
SetValue ==
    /\ Len(ops) < MaxOps
    /\ \E v \in Values :
          /\ value' = v
          /\ notified' = notifyLoop(notified, subscribers, 0, v)
          /\ ops' = Append(ops, [op |-> "set", arg |-> v])
    /\ UNCHANGED <<subscribers, shapeVars, iterVars, inferVars>>

\* subscribe(subscriber)
Subscribe ==
    /\ Len(ops) < MaxOps
    /\ \E f \in Callbacks :
          /\ subscribers' = Append(subscribers, f)
          /\ ops' = Append(ops, [op |-> "subscribe", arg |-> f])
    /\ UNCHANGED <<value, notified, shapeVars, iterVars, inferVars>>

NextSignal ==
    \/ GetValue
    \/ SetValue
    \/ Subscribe

(***************************************************************************)
(* Specifications.                                                         *)
(***************************************************************************)
\* a caller holds one source shape and is about to call toShape
InitShape ==
    /\ heap \in {<<s>> : s \in SourceShapes}
    /\ shape = 1
    /\ rank = 0
    /\ ret = 0
    /\ pc = "call"
    /\ itShape = <<>> /\ frames = <<>> /\ calls = <<>> /\ itPc = "off"
    /\ arr = Undefined /\ inferred = <<>> /\ infPc = "off"
    /\ value = InitialValue /\ subscribers = <<>> /\ notified = <<>> /\ ops = <<>>

ShapeSpec == InitShape /\ [][NextShape]_vars

\* a caller is about to call the iterateKD of its shape's rank
InitIter ==
    /\ itShape \in IterShapes
    /\ frames = <<>>
    /\ calls = <<>>
    /\ itPc = "idle"
    /\ heap = <<>> /\ shape = 0 /\ rank = 0 /\ ret = 0 /\ pc = "off"
    /\ arr = Undefined /\ inferred = <<>> /\ infPc = "off"
    /\ value = InitialValue /\ subscribers = <<>> /\ notified = <<>> /\ ops = <<>>

\* the iteration is synchronous code that runs to completion
IterSpec == InitIter /\ [][NextIter]_vars /\ WF_vars(NextIter)

\* a caller is about to call inferShape on a nested array
InitInfer ==
    /\ arr \in NestedArrays
    /\ inferred = <<>>
    /\ infPc = "call"
    /\ heap = <<>> /\ shape = 0 /\ rank = 0 /\ ret = 0 /\ pc = "off"
    /\ itShape = <<>> /\ frames = <<>> /\ calls = <<>> /\ itPc = "off"
    /\ value = InitialValue /\ subscribers = <<>> /\ notified = <<>> /\ ops = <<>>

InferSpec == InitInfer /\ [][NextInfer]_vars

\* createSignal(initialValue) has returned
InitSignal ==
    /\ value = InitialValue
    /\ subscribers = <<>>
    /\ notified = <<>>
    /\ ops = <<>>
    /\ heap = <<>> /\ shape = 0 /\ rank = 0 /\ ret = 0 /\ pc = "off"
    /\ itShape = <<>> /\ frames = <<>> /\ calls = <<>> /\ itPc = "off"
    /\ arr = Undefined /\ inferred = <<>> /\ infPc = "off"

SignalSpec == InitSignal /\ [][NextSignal]_vars

(***************************************************************************)
(* Properties of toShape and shapeLength, checked under ShapeSpec.         *)
(***************************************************************************)
\* the step in which toShape (or one of its wrappers) runs and returns
ToShapeReturns == pc = "call" /\ pc' = "returned"

\* the step in which the caller writes into the shape it received
CallerWrites == pc = "returned" /\ pc' = "written"

\* s[lo] * .. * s[hi], 0-based, 1 when lo > hi
RECURSIVE ProductOf(_, _, _)
ProductOf(s, lo, hi) ==
    IF lo > hi THEN 1 ELSE At(s, lo) * ProductOf(s, lo + 1, hi)

C4_Rank1OfOneTwoThree ==
    [][((Call(1) \/ shapeTo1D) /\ heap[shape] = <<1, 2, 3>>) =>
          heap'[ret'] = <<1>>]_vars

\* C5: for every non-empty source shape with dimensions >= 1 and every rank
\* R in 1..6, toShape completes and returns a shape of length exactly R
\* whose dimensions are all >= 1.
C5_WellFormedResult ==
    [][/\ pc = "call" => \A r \in Rank : ENABLED Call(r)
       /\ ToShapeReturns =>
             /\ Len(heap'[ret']) = rank'
             /\ \A k \in 1..Len(heap'[ret']) : heap'[ret'][k] >= 1]_vars

C5_Witness ==
    /\ pc = "returned"
    /\ rank = 6
    /\ Len(heap[shape]) = 1
    /\ Len(heap[ret]) = 6

\* C9 as stated: toShape leaves s unchanged and returns an object that is
\* not s, so a later write to the returned shape never changes s.
C9_AlwaysFresh ==
    [][/\ ToShapeReturns => (heap'[shape] = heap[shape] /\ ret' # shape)
       /\ CallerWrites => heap'[shape] = heap[shape]]_vars

\* C9 amended: toShape leaves s unchanged; when r # s.length it returns a
\* new object, and a later write to it never changes s; when r = s.length it
\* returns s itself, and a later write to the returned shape is a write to s.
C9_FreshUnlessSameRank ==
    [][/\ ToShapeReturns =>
             /\ heap'[shape] = heap[shape]
             /\ rank' # Len(heap[shape]) => ret' # shape
             /\ rank' = Len(heap[shape]) => ret' = shape
       /\ (CallerWrites /\ rank # Len(heap[shape])) =>
             heap'[shape] = heap[shape]
       /\ (CallerWrites /\ rank = Len(heap[shape])) =>
             (heap'[shape] = heap'[ret] /\ heap'[shape] # heap[shape])]_vars

C9_Witness ==
    /\ pc = "written"
    /\ rank < Len(heap[shape])
    /\ ret # shape
    /\ heap[shape] = <<3, 2, 3>>
    /\ heap[ret] = <<0, 3>>

(***************************************************************************)
(* Properties of iterate1D .. iterate4D, checked under IterSpec.           *)
(***************************************************************************)
RECURSIVE SeqProduct(_)
SeqProduct(s) == IF s = <<>> THEN 1 ELSE Head(s) * SeqProduct(Tail(s))

\* the index tuples of a shape in lexicographic order, last axis fastest:
\* the t-th tuple holds the digits of t - 1 in the mixed radix of the shape
RowMajor(sh) ==
    [t \in 1..SeqProduct(sh) |->
        [a \in 1..Len(sh) |->
            ((t - 1) \div SeqProduct(SubSeq(sh, a + 1, Len(sh)))) % sh[a]]]

IsPrefix(p, s) == Len(p) <= Len(s) /\ SubSeq(s, 1, Len(p)) = p

RECURSIVE FirstPath(_, _)
FirstPath(x, k) ==
    IF k = 0 THEN x
    ELSE LET up == FirstPath(x, k - 1) IN
         IF up.tag = "arr" /\ up.items # <<>> THEN Head(up.items) ELSE Undefined

RECURSIVE SameStructure(_, _)
SameStructure(a, b) ==
    /\ a.tag = b.tag
    /\ Len(a.items) = Len(b.items)
    /\ \A k \in 1..Len(a.items) : SameStructure(a.items[k], b.items[k])

\* all sibling sub-sequences at a level have the same length
RECURSIVE IsUniform(_)
IsUniform(x) ==
    \A k \in 1..Len(x.items) :
        /\ SameStructure(x.items[k], x.items[1])
        /\ IsUniform(x.items[k])

RECURSIVE SumLeaves(_, _)
RECURSIVE CountLeaves(_)
SumLeaves(items, k) ==
    IF k > Len(items) THEN 0 ELSE CountLeaves(items[k]) + SumLeaves(items, k + 1)

\* the number of scalar leaves of x
CountLeaves(x) ==
    IF x.tag = "num" THEN 1
    ELSE IF x.tag = "arr" THEN SumLeaves(x.items, 1)
    ELSE 0

\* C7: inferShape(x) is the length of x, then of x[0], then of x[0][0], and
\* so on, up to the first value on that path that is not a sequence; nothing
\* but the first-element path counts, and an empty x gives [0].
C7_FirstElementPath ==
    infPc = "returned" =>
        /\ \A k \in 1..Len(inferred) :
              /\ FirstPath(arr, k - 1).tag = "arr"
              /\ inferred[k] = Len(FirstPath(arr, k - 1).items)
        /\ FirstPath(arr, Len(inferred)).tag # "arr"
        /\ arr = Arr(<<>>) => inferred = <<0>>

C7_Witness ==
    /\ infPc = "returned"
    /\ ~IsUniform(arr)
    /\ arr = Build(<<2, 2, 1>>, "longer")
    /\ inferred = <<2, 2, 1>>

\* C8: for every uniformly nested array x of depth 1..6,
\* shapeLength(inferShape(x)) is the number of scalar leaves of x.
C8_LeafCount ==
    (infPc = "returned" /\ IsUniform(arr)) =>
        shapeLength(inferred) = CountLeaves(arr)

C8_Witness ==
    /\ infPc = "returned"
    /\ IsUniform(arr)
    /\ inferred = <<2, 2, 2, 2, 2, 2>>
    /\ CountLeaves(arr) = 64

(***************************************************************************)
(* Properties of createSignal, checked under SignalSpec.                   *)
(***************************************************************************)
\* the callbacks registered by the first p operations, in order
RegisteredBy(p) ==
    LET subs == SelectSeq(SubSeq(ops, 1, p), LAMBDA o : o.op = "subscribe")
    IN  [k \in 1..Len(subs) |-> subs[k].arg]

\* the value assigned last among the first p operations
RECURSIVE LastAssigned(_)
LastAssigned(p) ==
    IF p = 0 THEN InitialValue
    ELSE IF ops[p].op = "set" THEN ops[p].arg
    ELSE LastAssigned(p - 1)

\* the invocations the first p operations are to make
RECURSIVE ExpectedNotified(_)
ExpectedNotified(p) ==
    IF p = 0 THEN <<>>
    ELSE ExpectedNotified(p - 1) \o
         (IF ops[p].op = "set"
          THEN [k \in 1..Len(RegisteredBy(p - 1)) |->
                   [sub |-> RegisteredBy(p - 1)[k], val |-> ops[p].arg]]
          ELSE <<>>)

\* C10: subscribe invokes nothing; each assignment stores the value and
\* invokes each registration made so far exactly once, in subscription
\* order, with the assigned value; a later registration is not invoked for
\* it; reading value returns the value assigned last (the initial one if
\* none).
C10_SignalNotifies ==
    /\ notified = ExpectedNotified(Len(ops))
    /\ subscribers = RegisteredBy(Len(ops))
    /\ value = LastAssigned(Len(ops))
    /\ \A p \in 1..Len(ops) : ops[p].op = "get" => ops[p].arg = LastAssigned(p - 1)

C10_Witness ==
    /\ Len(ops) = 4
    /\ ops[1].op = "subscribe" /\ ops[2].op = "set"
    /\ ops[3].op = "subscribe" /\ ops[4].op = "set"
    /\ notified = <<[sub |-> 1, val |-> 10], [sub |-> 1, val |-> 20],
                    [sub |-> 2, val |-> 20]>>

====
